---- MODULE Spec2Model ----
(***************************************************************************)
(* png2svg.py: a raster image is converted to an SVG document holding one  *)
(* <rect> per horizontal run of same-coloured, non-transparent pixels,     *)
(* grouped by colour.  The script is modelled statement by statement: the  *)
(* program counter pc names the statement about to be executed.            *)
(***************************************************************************)
EXTENDS Integers, Sequences, FiniteSets, TLC

(* ---------------------------------------------------------------- bounds *)
MaxW == 3
MaxH == 2
MaxPixels == 6
MaxRuns == 2

(* ------------------------------------------------------- input universe *)
\* A pixel of the RGBA-converted image is <<r, g, b, a>>, each 0..255.
Palette ==
    { <<255, 0, 0, 0>>,      \* transparent, red colour channels
      <<255, 0, 0, 255>>,    \* opaque red
      <<255, 0, 0, 128>>,    \* half-transparent red
      <<0, 0, 255, 255>> }   \* opaque blue

Coords(W, H) == (0 .. W - 1) \X (0 .. H - 1)

Sizes == { s \in (0 .. MaxW) \X (0 .. MaxH) : s[1] * s[2] <= MaxPixels }

Images ==
    UNION { { [w |-> s[1], h |-> s[2], px |-> f] :
              f \in [Coords(s[1], s[2]) -> Palette] } : s \in Sizes }

Absent == "absent"

(* ---------------------------------------------------------------- state *)
VARIABLES
    inFile,     \* the image stored at the input path
    outFile,    \* the output path: Absent, or the sequence of lines written
    pc,         \* statement about to execute, or "done" / "failed"
    err,        \* "none", or which call raised: "input", "output", "index"
    w, h, px,   \* img.size and img.load()
    layers,     \* dict colour -> list of rects, in insertion order
    y, x,       \* loop variables of lines 13 and 14-27
    rgb, color, x0,   \* the run being extracted
    gi, ri,     \* positions of the two for loops of the writer
    reads,      \* history: the px[...] accesses of this run, in order
    rows,       \* history: the values y has taken in this run, in order
    opens,      \* history: times this run opened the output path
    outAtStart, \* history: outFile when this run was started
    lastDoc,    \* history: outFile at the end of the last successful run
    runs        \* history: number of runs started

vars == << inFile, outFile, pc, err, w, h, px, layers, y, x, rgb, color, x0,
           gi, ri, reads, rows, opens, outAtStart, lastDoc, runs >>

procVars == << w, h, px, layers, y, x, rgb, color, x0, gi, ri >>

NoDoc == "none"
NoRGB == << >>

(* ------------------------------------------------------------- helpers *)
HexDigits ==
    << "0", "1", "2", "3", "4", "5", "6", "7",
       "8", "9", "a", "b", "c", "d", "e", "f" >>

\* format spec "x": lowercase hexadecimal digits of v, most significant first
RECURSIVE HexStr(_)
HexStr(v) ==
    IF v < 16 THEN << HexDigits[v + 1] >>
    ELSE HexStr(v \div 16) \o << HexDigits[(v % 16) + 1] >>

\* format spec "02x": zero-padded to a width of at least 2
Hex02(v) ==
    LET s == HexStr(v) IN IF Len(s) < 2 THEN << "0" >> \o s ELSE s

\* variant of line 20 with the channels in the order b, g, r
ColorKeyBGR(r, g, b) == << "#" >> \o Hex02(b) \o Hex02(g) \o Hex02(r)

\* line 20: color = f"#{r:02x}{g:02x}{b:02x}", as a sequence of characters
ColorKey(r, g, b) == << "#" >> \o Hex02(r) \o Hex02(g) \o Hex02(b)

\* variant of line 17 that takes every pixel that is not opaque as transparent
IsTransparentBelow255(p) == p[4] < 255

\* line 17: a == 0
IsTransparent(p) == p[4] = 0

\* variant of line 25 without the colour comparison
RunBreaksAlphaOnly(p2, c) == p2[4] = 0

\* line 25: a2 == 0 or (r2, g2, b2) != (r, g, b)
RunBreaks(p2, c) == p2[4] = 0 \/ << p2[1], p2[2], p2[3] >> # c

\* line 28: run_w = x - x0
RunWidth(xe, xs) == xe - xs

\* variant of line 29 with width and height exchanged
RunRectSwapped(xs, yy, rw) == << xs, yy, 1, rw >>

\* line 29: the rect appended for a run
RunRect(xs, yy, rw) == << xs, yy, rw, 1 >>

\* variant of line 29 that never finds the colour's existing list
AppendRectNewGroup(L, c, rect) == Append(L, [ color |-> c, rects |-> << rect >> ])

\* line 29: layers.setdefault(color, []).append(rect)
AppendRect(L, c, rect) ==
    IF \E i \in 1 .. Len(L) : L[i].color = c
    THEN [ i \in 1 .. Len(L) |->
             IF L[i].color = c
             THEN [ L[i] EXCEPT !.rects = Append(@, rect) ]
             ELSE L[i] ]
    ELSE Append(L, [ color |-> c, rects |-> << rect >> ])

\* line 11: layers = {}
EmptyLayers == << >>

\* lines 16/24: px[x, y]; an access outside the image raises IndexError
InImage(xx, yy) == xx >= 0 /\ xx < w /\ yy >= 0 /\ yy < h

\* variant of lines 15/23 with x <= w
InRowInclusive(xx, ww) == xx <= ww

\* lines 15/23: while x < w
InRow(xx, ww) == xx < ww

\* variant of line 13 with range(h - 1)
InRangeShort(yy, hh) == yy < hh - 1

\* line 13: for y in range(h)
InRange(yy, hh) == yy < hh

\* lines 23-27 as one function: the column at which the inner loop stops
RECURSIVE RunEnd(_, _, _, _, _)
RunEnd(P, ww, yy, xx, c) ==
    IF InRow(xx, ww) /\ ~ RunBreaks(P[<< xx, yy >>], c)
    THEN RunEnd(P, ww, yy, xx + 1, c)
    ELSE xx

\* lines 15-29 as one function: the layers after the rest of row yy
RECURSIVE ScanRow(_, _, _, _, _)
ScanRow(P, ww, yy, xx, L) ==
    IF ~ InRow(xx, ww) THEN L
    ELSE LET p == P[<< xx, yy >>] IN
         IF IsTransparent(p) THEN ScanRow(P, ww, yy, xx + 1, L)
         ELSE LET c == << p[1], p[2], p[3] >>
                  e == RunEnd(P, ww, yy, xx, c)
              IN  ScanRow(P, ww, yy, e,
                          AppendRect(L, ColorKey(p[1], p[2], p[3]),
                                     RunRect(xx, yy, RunWidth(e, xx))))

\* lines 13-29 as one function
RECURSIVE ScanRows(_, _, _, _, _)
ScanRows(P, ww, hh, yy, L) ==
    IF ~ InRange(yy, hh) THEN L
    ELSE ScanRows(P, ww, hh, yy + 1, ScanRow(P, ww, yy, 0, L))

\* lines 11-29 as one function of the loaded image
ExtractLayers(P, ww, hh) == ScanRows(P, ww, hh, 0, EmptyLayers)

(* ----------------------------------------------------------------- init *)
Init ==
    /\ inFile \in Images
    /\ outFile = Absent
    /\ pc = "start"
    /\ err = "none"
    /\ w = 0 /\ h = 0 /\ px = << >>
    /\ layers = << >>
    /\ y = 0 /\ x = 0
    /\ rgb = NoRGB /\ color = << >> /\ x0 = 0
    /\ gi = 0 /\ ri = 0
    /\ reads = << >> /\ rows = << >>
    /\ opens = 0
    /\ outAtStart = Absent
    /\ lastDoc = NoDoc
    /\ runs = 1

hist == << reads, rows, opens, outAtStart, lastDoc, runs >>

(* -------------------------------------------------------------- loading *)
\* lines 5-11: the image is opened, converted and loaded; layers = {}
Load ==
    /\ pc = "start"
    /\ w' = inFile.w /\ h' = inFile.h /\ px' = inFile.px
    /\ layers' = EmptyLayers
    /\ y' = 0
    /\ pc' = "row"
    /\ UNCHANGED << inFile, outFile, err, x, rgb, color, x0, gi, ri, hist >>

\* line 6: Image.open / convert raises; the script ends with a traceback
LoadFail ==
    /\ pc = "start"
    /\ pc' = "failed" /\ err' = "input"
    /\ UNCHANGED << inFile, outFile, procVars, hist >>

(* ------------------------------------------------------------- scanning *)
\* line 13-14: next value of y from range(h); x = 0
RowNext ==
    /\ pc = "row"
    /\ InRange(y, h)
    /\ x' = 0
    /\ rows' = Append(rows, y)
    /\ pc' = "outer"
    /\ UNCHANGED << inFile, outFile, err, w, h, px, layers, y, rgb, color, x0,
                    gi, ri, reads, opens, outAtStart, lastDoc, runs >>

\* line 13: range(h) is exhausted; control reaches line 32
ScanDone ==
    /\ pc = "row"
    /\ ~ InRange(y, h)
    /\ pc' = "open"
    /\ UNCHANGED << inFile, outFile, err, procVars, hist >>

\* line 15 false: the row is finished, back to the for loop
RowEnd ==
    /\ pc = "outer"
    /\ ~ InRow(x, w)
    /\ y' = y + 1
    /\ pc' = "row"
    /\ UNCHANGED << inFile, outFile, err, w, h, px, layers, x, rgb, color, x0,
                    gi, ri, hist >>

\* lines 15-19: a transparent pixel is skipped
\* lines 15-22: a non-transparent pixel starts a run
OuterStep ==
    /\ pc = "outer"
    /\ InRow(x, w)
    /\ reads' = Append(reads, << x, y >>)
    /\ IF ~ InImage(x, y)
       THEN /\ pc' = "failed" /\ err' = "index"
            /\ UNCHANGED << x, rgb, color, x0 >>
       ELSE LET p == px[<< x, y >>] IN
            IF IsTransparent(p)
            THEN /\ x' = x + 1
                 /\ UNCHANGED << pc, err, rgb, color, x0 >>
            ELSE /\ rgb' = << p[1], p[2], p[3] >>
                 /\ color' = ColorKey(p[1], p[2], p[3])
                 /\ x0' = x
                 /\ pc' = "inner"
                 /\ UNCHANGED << err, x >>
    /\ UNCHANGED << inFile, outFile, w, h, px, layers, y, gi, ri,
                    rows, opens, outAtStart, lastDoc, runs >>

\* lines 28-29, reached from the break of line 26 or from line 23 false
EmitRun ==
    /\ layers' = AppendRect(layers, color, RunRect(x0, y, RunWidth(x, x0)))
    /\ pc' = "outer"

\* lines 23-27: one iteration of the inner loop, then lines 28-29 on a break
InnerStep ==
    /\ pc = "inner"
    /\ InRow(x, w)
    /\ reads' = Append(reads, << x, y >>)
    /\ IF ~ InImage(x, y)
       THEN /\ pc' = "failed" /\ err' = "index"
            /\ UNCHANGED << x, layers >>
       ELSE IF RunBreaks(px[<< x, y >>], rgb)
            THEN /\ EmitRun
                 /\ UNCHANGED << x, err >>
            ELSE /\ x' = x + 1
                 /\ UNCHANGED << pc, err, layers >>
    /\ UNCHANGED << inFile, outFile, w, h, px, y, rgb, color, x0, gi, ri,
                    rows, opens, outAtStart, lastDoc, runs >>

\* line 23 false: the run reaches the end of the row; lines 28-29
InnerEnd ==
    /\ pc = "inner"
    /\ ~ InRow(x, w)
    /\ EmitRun
    /\ UNCHANGED << inFile, outFile, err, w, h, px, y, x, rgb, color, x0,
                    gi, ri, hist >>

(* -------------------------------------------------------------- writing *)
\* variant of line 33 with width and height exchanged in the view box
SvgOpenSwapped(ww, hh) ==
    << "svg", [ xmlns |-> "http://www.w3.org/2000/svg",
                viewBox |-> << 0, 0, hh, ww >>,
                shape_rendering |-> "crispEdges" ] >>

\* line 33: the root element
SvgOpen(ww, hh) ==
    << "svg", [ xmlns |-> "http://www.w3.org/2000/svg",
                viewBox |-> << 0, 0, ww, hh >>,
                shape_rendering |-> "crispEdges" ] >>

\* line 35
GroupOpen(c) == << "g", [ fill |-> c ] >>

\* line 37
RectLine(r) ==
    << "rect", [ x |-> r[1], y |-> r[2], width |-> r[3], height |-> r[4] ] >>

\* line 38
GroupClose == << "/g", << >> >>

\* line 39
SvgClose == << "/svg", << >> >>

\* variant of line 32 with mode "a": an existing file keeps its content
Appended(f) == IF f = Absent THEN << >> ELSE f

\* line 32: mode "w" creates the file empty or truncates it
Truncated(f) == << >>

\* line 32: open(outp, "w") succeeds
OpenOut ==
    /\ pc = "open"
    /\ outFile' = Truncated(outFile)
    /\ opens' = opens + 1
    /\ pc' = "header"
    /\ UNCHANGED << inFile, err, procVars, reads, rows, outAtStart, lastDoc, runs >>

\* variant of line 32 in which the exception is caught and the script ends
\* normally
OpenOutFailSwallowed ==
    /\ pc = "open"
    /\ pc' = "done" /\ err' = "output"
    /\ UNCHANGED << inFile, outFile, procVars, hist >>

\* line 32: open(outp, "w") raises (permissions, invalid path)
OpenOutFail ==
    /\ pc = "open"
    /\ pc' = "failed" /\ err' = "output"
    /\ UNCHANGED << inFile, outFile, procVars, hist >>

\* line 33
WriteHeader ==
    /\ pc = "header"
    /\ outFile' = Append(outFile, SvgOpen(w, h))
    /\ gi' = 1
    /\ pc' = "groups"
    /\ UNCHANGED << inFile, err, w, h, px, layers, y, x, rgb, color, x0, ri, hist >>

\* lines 34-35: next item of layers.items(); the group is opened
WriteGroupOpen ==
    /\ pc = "groups"
    /\ gi <= Len(layers)
    /\ outFile' = Append(outFile, GroupOpen(layers[gi].color))
    /\ ri' = 1
    /\ pc' = "rects"
    /\ UNCHANGED << inFile, err, w, h, px, layers, y, x, rgb, color, x0, gi, hist >>

\* lines 36-37: next rect of the group
WriteRect ==
    /\ pc = "rects"
    /\ ri <= Len(layers[gi].rects)
    /\ outFile' = Append(outFile, RectLine(layers[gi].rects[ri]))
    /\ ri' = ri + 1
    /\ UNCHANGED << inFile, pc, err, w, h, px, layers, y, x, rgb, color, x0, gi, hist >>

\* line 38: the group's rects are exhausted; the group is closed
WriteGroupClose ==
    /\ pc = "rects"
    /\ ri > Len(layers[gi].rects)
    /\ outFile' = Append(outFile, GroupClose)
    /\ gi' = gi + 1
    /\ pc' = "groups"
    /\ UNCHANGED << inFile, err, w, h, px, layers, y, x, rgb, color, x0, ri, hist >>

\* line 39, then the with block closes the file; the script ends normally
WriteFooter ==
    /\ pc = "groups"
    /\ gi > Len(layers)
    /\ outFile' = Append(outFile, SvgClose)
    /\ pc' = "done"
    /\ UNCHANGED << inFile, err, procVars, hist >>

Writing == pc \in { "header", "groups", "rects" }

\* lines 33-39: a write raises; the with block closes the file, what was
\* written so far stays, and the exception ends the script
WriteFail ==
    /\ Writing
    /\ pc' = "failed" /\ err' = "output"
    /\ UNCHANGED << inFile, outFile, procVars, hist >>

(* ------------------------------------------------------------ invocation *)
\* the script is started again on the same paths after a completed run;
\* a new process shares nothing with the previous one but the two files
Rerun ==
    /\ pc = "done"
    /\ runs < MaxRuns
    /\ runs' = runs + 1
    /\ lastDoc' = outFile
    /\ outAtStart' = outFile
    /\ pc' = "start" /\ err' = "none"
    /\ w' = 0 /\ h' = 0 /\ px' = << >>
    /\ layers' = << >>
    /\ y' = 0 /\ x' = 0
    /\ rgb' = NoRGB /\ color' = << >> /\ x0' = 0
    /\ gi' = 0 /\ ri' = 0
    /\ reads' = << >> /\ rows' = << >>
    /\ opens' = 0
    /\ UNCHANGED << inFile, outFile >>

Next ==
    \/ Load
    \/ LoadFail
    \/ RowNext
    \/ ScanDone
    \/ RowEnd
    \/ OuterStep
    \/ InnerStep
    \/ InnerEnd
    \/ OpenOut
    \/ OpenOutFail
    \/ WriteHeader
    \/ WriteGroupOpen
    \/ WriteRect
    \/ WriteGroupClose
    \/ WriteFooter
    \/ WriteFail
    \/ Rerun

Spec == Init /\ [][Next]_vars

(* ===================================================== derived notions *)
Loaded == pc # "start" /\ err # "input"

\* the layer mapping changes only in EmitRun, which leaves pc = "outer", and
\* is complete at pc = "open": these states show every value it ever takes
LayersChanged == pc \in { "outer", "open" }

\* the scan of all rows has finished
Scanned ==
    \/ pc \in { "open", "header", "groups", "rects", "done" }
    \/ pc = "failed" /\ err = "output"

RGBOf(p) == << p[1], p[2], p[3] >>

Opaque(c) == px[c][4] # 0

NonTransparent == { c \in Coords(w, h) : Opaque(c) }

\* the pixels a rect <<x, y, width, height>> paints
Cover(r) == (r[1] .. r[1] + r[3] - 1) \X (r[2] .. r[2] + r[4] - 1)

\* positions of the rects of the layer mapping
RectIdx ==
    UNION { { << i, j >> : j \in 1 .. Len(layers[i].rects) } :
            i \in 1 .. Len(layers) }

RectAt(ij) == layers[ij[1]].rects[ij[2]]

AllRects == { RectAt(ij) : ij \in RectIdx }

HexChars == { HexDigits[i] : i \in 1 .. 16 }

IsHexKey(k) ==
    /\ Len(k) = 7
    /\ k[1] = "#"
    /\ \A i \in 2 .. 7 : k[i] \in HexChars

HexVal(ch) == (CHOOSE n \in 1 .. 16 : HexDigits[n] = ch) - 1

\* the colour a fill attribute #rrggbb denotes
KeyRGB(k) ==
    << 16 * HexVal(k[2]) + HexVal(k[3]),
       16 * HexVal(k[4]) + HexVal(k[5]),
       16 * HexVal(k[6]) + HexVal(k[7]) >>

ColoursPresent == { RGBOf(px[c]) : c \in NonTransparent }

\* row-major position of a pixel
Idx(c) == c[2] * w + c[1]

SameRun(c, d) == Opaque(c) /\ Opaque(d) /\ RGBOf(px[c]) = RGBOf(px[d])

SeqRange(q) == { q[i] : i \in 1 .. Len(q) }

Tags(doc, t) == { i \in 1 .. Len(doc) : doc[i][1] = t }

RectOfLine(l) == << l[2].x, l[2].y, l[2].width, l[2].height >>

\* the fill in force at line i: that of the last <g> before it
FillAt(doc, i) ==
    LET g == CHOOSE k \in Tags(doc, "g") :
                 k < i /\ \A m \in Tags(doc, "g") : m < i => m <= k
    IN  doc[g][2].fill

\* what a renderer shows at pixel c: the fill of the last rect painted over
\* it, or "none"
RenderAt(doc, c) ==
    LET hits == { i \in Tags(doc, "rect") : c \in Cover(RectOfLine(doc[i])) }
    IN  IF hits = {} THEN "none"
        ELSE FillAt(doc, CHOOSE i \in hits : \A k \in hits : k <= i)

Red == << 255, 0, 0, 255 >>
Blue == << 0, 0, 255, 255 >>
RedKey == << "#", "f", "f", "0", "0", "0", "0" >>
BlueKey == << "#", "0", "0", "0", "0", "f", "f" >>

(* ================================================================ C1 *)
\* C1: once the scan has finished, every non-transparent pixel is covered by
\* exactly one rect of the layer mapping, the rects of each colour's group
\* cover exactly the non-transparent pixels of that colour, nothing else is
\* covered, and rendering the written document reproduces the RGB of every
\* non-transparent pixel and paints no transparent pixel.
C1_Coverage ==
    /\ pc = "open" =>
         /\ \A c \in NonTransparent :
              Cardinality({ ij \in RectIdx : c \in Cover(RectAt(ij)) }) = 1
         /\ \A i \in 1 .. Len(layers) :
              /\ IsHexKey(layers[i].color)
              /\ UNION { Cover(layers[i].rects[j]) :
                         j \in 1 .. Len(layers[i].rects) }
                   = { c \in NonTransparent :
                         RGBOf(px[c]) = KeyRGB(layers[i].color) }
         /\ \A v \in ColoursPresent :
              \E i \in 1 .. Len(layers) : KeyRGB(layers[i].color) = v
         /\ UNION { Cover(r) : r \in AllRects } = NonTransparent
    /\ pc = "done" =>
         /\ \A c \in Coords(w, h) :
              IF Opaque(c)
              THEN /\ RenderAt(outFile, c) # "none"
                   /\ IsHexKey(RenderAt(outFile, c))
                   /\ KeyRGB(RenderAt(outFile, c)) = RGBOf(inFile.px[c])
              ELSE RenderAt(outFile, c) = "none"
         /\ \A i \in Tags(outFile, "rect") :
              Cover(RectOfLine(outFile[i])) \subseteq Coords(inFile.w, inFile.h)

C1_Witness ==
    /\ pc = "done"
    /\ w = 3 /\ h = 2
    /\ Len(layers) = 2
    /\ \E i \in 1 .. Len(layers) : Len(layers[i].rects) >= 2
    /\ \E c \in Coords(w, h) : ~ Opaque(c)

(* ================================================================ C2 *)
\* C2: in every reachable state every rect in the layer mapping has height
\* exactly 1 and width at least 1.
C2_RectShape ==
    \A r \in AllRects : r[4] = 1 /\ r[3] >= 1

C2_Witness ==
    /\ pc = "inner"
    /\ \E r \in AllRects : r[3] >= 2
    /\ \E r \in AllRects : r[3] = 1

(* ================================================================ C3 *)
AllTransparent == \A c \in Coords(w, h) : ~ Opaque(c)

NoGroupsNoRects(doc) == Tags(doc, "g") = {} /\ Tags(doc, "rect") = {}

C4_MaximalRuns ==
    LayersChanged =>
      /\ \A ij \in RectIdx :
           LET r == RectAt(ij)
               k == layers[ij[1]].color
           IN  /\ Cover(r) \subseteq Coords(w, h)
               /\ IsHexKey(k)
               /\ \A c \in Cover(r) :
                    c[2] = r[2] /\ Opaque(c) /\ RGBOf(px[c]) = KeyRGB(k)
               /\ r[1] > 0 =>
                    ~ SameRun(<< r[1] - 1, r[2] >>, << r[1], r[2] >>)
               /\ r[1] + r[3] < w =>
                    ~ SameRun(<< r[1] + r[3], r[2] >>, << r[1], r[2] >>)
      /\ \A ij \in RectIdx : \A kl \in RectIdx :
           ( /\ RectAt(ij)[2] = RectAt(kl)[2]
             /\ RectAt(ij)[1] + RectAt(ij)[3] = RectAt(kl)[1] )
           => layers[ij[1]].color # layers[kl[1]].color
      /\ ( pc = "open" /\ w = 3 /\ h = 1
           /\ px[<< 0, 0 >>] = Red /\ px[<< 1, 0 >>] = Red
           /\ px[<< 2, 0 >>] = Blue )
         => layers = << [ color |-> RedKey, rects |-> << << 0, 0, 2, 1 >> >> ],
                        [ color |-> BlueKey, rects |-> << << 2, 0, 1, 1 >> >> ] >>

C4_Witness ==
    /\ pc = "open"
    /\ w = 3 /\ h = 1
    /\ px[<< 0, 0 >>] = Red /\ px[<< 1, 0 >>] = Red /\ px[<< 2, 0 >>] = Blue
    /\ Len(layers) = 2

(* ================================================================ C5 *)
NonZeroAlphas == { 128, 255 }

\* the images that differ from P only in the value of non-zero alphas
AlphaVariants(P) ==
    { [ c \in DOMAIN P |->
          IF P[c][4] = 0 THEN P[c]
          ELSE << P[c][1], P[c][2], P[c][3], a[c] >> ] :
      a \in [ DOMAIN P -> NonZeroAlphas ] }

\* C5: alpha counts only as zero or non-zero: two horizontally adjacent
\* pixels of one colour with non-zero alphas lie in one rect whatever their
\* alphas, and the layer mapping the scan ends with is the one it ends with
\* on every image that differs only in the value of non-zero alphas.
C5_AlphaOnlyZeroNonZero ==
    pc = "open" =>
      /\ \A c \in Coords(w - 1, h) :
           SameRun(c, << c[1] + 1, c[2] >>) =>
             \E r \in AllRects : { c, << c[1] + 1, c[2] >> } \subseteq Cover(r)
      /\ layers = ExtractLayers(px, w, h)
      /\ \A q \in AlphaVariants(px) : ExtractLayers(q, w, h) = layers

C5_Witness ==
    /\ pc = "open"
    /\ \E c \in Coords(w - 1, h) :
         /\ SameRun(c, << c[1] + 1, c[2] >>)
         /\ px[c][4] # px[<< c[1] + 1, c[2] >>][4]
         /\ \E r \in AllRects : { c, << c[1] + 1, c[2] >> } \subseteq Cover(r)

(* ================================================================ C6 *)
\* the groups of a document, in order, each with its rects in order
RECURSIVE ParseGroups(_, _, _)
ParseGroups(doc, i, acc) ==
    IF i > Len(doc) THEN acc
    ELSE IF doc[i][1] = "g"
    THEN ParseGroups(doc, i + 1,
                     Append(acc, [ fill |-> doc[i][2].fill, rects |-> << >> ]))
    ELSE IF doc[i][1] = "rect" /\ Len(acc) > 0
    THEN ParseGroups(doc, i + 1,
                     [ acc EXCEPT ![Len(acc)].rects = Append(@, RectOfLine(doc[i])) ])
    ELSE ParseGroups(doc, i + 1, acc)

\* svg (g rect* /g)* /svg
WellFormed(doc) ==
    /\ Len(doc) >= 2
    /\ doc[1][1] = "svg"
    /\ doc[Len(doc)][1] = "/svg"
    /\ doc[Len(doc) - 1][1] \in { "svg", "/g" }
    /\ \A i \in 2 .. Len(doc) - 1 :
         /\ doc[i][1] \in { "g", "rect", "/g" }
         /\ doc[i][1] = "g" => doc[i - 1][1] \in { "svg", "/g" }
         /\ doc[i][1] \in { "rect", "/g" } => doc[i - 1][1] \in { "g", "rect" }

\* the pixel at c starts a maximal run of the image
IsRunStart(c) ==
    /\ Opaque(c)
    /\ c[1] = 0 \/ ~ SameRun(<< c[1] - 1, c[2] >>, c)

\* the length of the maximal run starting at c
RunLen(c) ==
    CHOOSE n \in 1 .. w - c[1] :
      /\ \A k \in 0 .. n - 1 : SameRun(c, << c[1] + k, c[2] >>)
      /\ c[1] + n = w \/ ~ SameRun(c, << c[1] + n, c[2] >>)

\* the maximal runs of colour v, as rects
RunsOf(v) ==
    { << c[1], c[2], RunLen(c), 1 >> :
      c \in { d \in Coords(w, h) : IsRunStart(d) /\ RGBOf(px[d]) = v } }

\* row-major position of the first non-transparent pixel of colour v
FirstIdx(v) ==
    LET S == { Idx(c) : c \in { d \in NonTransparent : RGBOf(px[d]) = v } }
    IN  CHOOSE m \in S : \A n \in S : m <= n

\* C6: the written document holds exactly one group per colour occurring
\* among the non-transparent pixels, its fill the colour's lowercase #rrggbb
\* key, none empty; the groups are in the order in which their colours are
\* first met in the row-major scan; each group holds the maximal runs of its
\* colour as rects with the run's x, y, width, height, in row-major order; a
\* single opaque red pixel yields one #ff0000 group with the rect 0,0,1,1.
C6_GroupsInScanOrder ==
    pc = "done" =>
      LET G == ParseGroups(outFile, 1, << >>) IN
      /\ WellFormed(outFile)
      /\ \A i \in 1 .. Len(G) :
           /\ IsHexKey(G[i].fill)
           /\ KeyRGB(G[i].fill) \in ColoursPresent
           /\ G[i].rects # << >>
           /\ SeqRange(G[i].rects) = RunsOf(KeyRGB(G[i].fill))
           /\ \A a \in 1 .. Len(G[i].rects) : \A b \in 1 .. Len(G[i].rects) :
                a < b => Idx(G[i].rects[a]) < Idx(G[i].rects[b])
      /\ Len(G) = Cardinality(ColoursPresent)
      /\ \A i \in 1 .. Len(G) : \A j \in 1 .. Len(G) :
           i < j => FirstIdx(KeyRGB(G[i].fill)) < FirstIdx(KeyRGB(G[j].fill))
      /\ (w = 1 /\ h = 1 /\ px[<< 0, 0 >>] = Red) =>
           G = << [ fill |-> RedKey, rects |-> << << 0, 0, 1, 1 >> >> ] >>

C6_Witness ==
    /\ pc = "done"
    /\ h = 2
    /\ Len(layers) = 2
    /\ Len(layers[1].rects) >= 2
    /\ Len(layers[2].rects) >= 2
    /\ Len(outFile) = 10

(* ================================================================ C7 *)
\* C7: a run that completes after an earlier completed run on the same
\* input leaves the output document the earlier run left: same lines, same
\* order, although it overwrites the earlier output.
C7_Deterministic ==
    (pc = "done" /\ lastDoc # NoDoc) => outFile = lastDoc

C7_Witness ==
    /\ pc = "done"
    /\ runs = 2
    /\ lastDoc # NoDoc
    /\ outAtStart = lastDoc
    /\ Len(outFile) >= 6

(* ================================================================ C8 *)
ScanPcs == { "row", "outer", "inner" }

WritePcs == { "open", "header", "groups", "rects" }

\* C8: while the rows are scanned the output path is not opened and holds
\* what it held when the run started; when it is opened every pixel has been
\* read, in one row-major pass; it is opened at most once; no pixel is read
\* once it has been opened; the input file and the loaded pixels never
\* change; the output changes only in the writing statements at the end.
C8_ReadAllThenWrite ==
    /\ [] ( pc \in { "start" } \cup ScanPcs =>
              opens = 0 /\ outFile = outAtStart )
    /\ [] ( opens >= 1 =>
              /\ Coords(inFile.w, inFile.h) \subseteq SeqRange(reads)
              /\ Scanned )
    /\ [] ( \A i \in 1 .. Len(reads) : \A j \in 1 .. Len(reads) :
              i < j => Idx(reads[i]) <= Idx(reads[j]) )
    /\ [] ( opens <= 1 )
    /\ [][ (opens >= 1 /\ runs' = runs) => reads' = reads ]_vars
    /\ [][ inFile' = inFile /\ (Loaded /\ runs' = runs => px' = px) ]_vars
    /\ [][ outFile' # outFile => (pc \in WritePcs /\ Scanned') ]_vars

C8_Witness ==
    /\ pc = "done"
    /\ opens = 1
    /\ w = 3 /\ h = 2
    /\ Len(reads) >= 8
    /\ Len(outFile) >= 6

(* ================================================================ C9 *)
\* exit status of the process: 0 after a normal end, 1 after a traceback
ExitStatus == IF pc = "done" THEN 0 ELSE IF pc = "failed" THEN 1 ELSE -1

\* every line of the document of the layer mapping has been written
CompleteDoc(doc) ==
    /\ WellFormed(doc)
    /\ Cardinality(Tags(doc, "g")) = Len(layers)
    /\ Cardinality(Tags(doc, "/g")) = Len(layers)
    /\ Cardinality(Tags(doc, "rect")) = Cardinality(RectIdx)

\* C9: a run ends in success only with the full document written and no
\* call having raised; when opening the input or writing the output raises,
\* the run ends in failure with a non-zero status; when the input cannot be
\* opened, the output path is not opened and holds what it held before.
C9_FailureNeverSuccess ==
    /\ ExitStatus = 0 => (err = "none" /\ opens = 1 /\ CompleteDoc(outFile))
    /\ err # "none" => (pc = "failed" /\ ExitStatus # 0)
    /\ err = "input" => (opens = 0 /\ outFile = outAtStart)

C9_Witness ==
    /\ pc = "failed"
    /\ err = "input"
    /\ outAtStart # Absent
    /\ outFile = outAtStart

(* =============================================================== C10 *)
\* steps the scan can still take: it decreases with every step of the scan
Measure ==
    (h - y) * (3 * w + 2)
    - ( IF pc = "row" THEN 0
        ELSE IF pc = "outer" THEN 1 + 3 * x
        ELSE 2 + 2 * x0 + x )

ScanStepDecreases ==
    pc \in ScanPcs =>
      /\ pc' \in ScanPcs \cup { "open" }
      /\ pc' \in ScanPcs => Measure' < Measure

\* C10: once the image is loaded the scan ends without error for every
\* W >= 0 and H >= 0: no statement of the scan raises, x never exceeds W,
\* every pixel read lies in the image, the rows visited are 0..H-1 in order,
\* each once, every step of the scan is followed by another statement and
\* decreases a non-negative measure, x has grown at the end of every
\* iteration of the outer loop, and a zero-size image yields a document
\* with no groups.
C10_ScanTerminates ==
    /\ [] ( err # "index" )
    /\ [] ( pc \in ScanPcs =>
              /\ x >= 0 /\ x <= w
              /\ Measure >= 0
              /\ ENABLED Next )
    /\ [] ( \A i \in 1 .. Len(reads) : reads[i] \in Coords(inFile.w, inFile.h) )
    /\ [] ( /\ Len(rows) <= h
            /\ \A i \in 1 .. Len(rows) : rows[i] = i - 1 )
    /\ [] ( Scanned => Len(rows) = inFile.h )
    /\ [] ( (pc = "done" /\ (inFile.w = 0 \/ inFile.h = 0)) =>
              outFile = << SvgOpen(inFile.w, inFile.h), SvgClose >> )
    /\ [][ ScanStepDecreases ]_vars
    /\ [][ (pc = "outer" /\ pc' = "outer") => x' > x ]_vars
    /\ [][ (pc = "inner" /\ pc' = "outer") => x' > x0 ]_vars

C10_Witness ==
    /\ pc = "open"
    /\ w = 3 /\ h = 2
    /\ rows = << 0, 1 >>
    /\ Len(layers) = 2
    /\ Len(reads) >= 10

====
